---- MODULE Spec2Model ----
(***************************************************************************)
(* Model of src/hooks/session-notification.ts: the idle-notification hook  *)
(* returned by createSessionNotification.  The JavaScript runtime is one   *)
(* thread: an event handler call, a timer callback and the continuation    *)
(* of an await each run to their next suspension point without            *)
(* interleaving, so each of them is one action.                            *)
(***************************************************************************)
EXTENDS Integers, Sequences, FiniteSets, TLC

\* ------------------------------------------------------------------ bounds
MaxTimers == 2          \* setTimeout calls in one behaviour
MaxTodos == 2           \* length of a todo list returned by the todo query
MaxQueryTodos == 4      \* the same, where hasIncompleteTodos is run on its own

Sessions == {"s1", "s2"}
Undefined == "undefined"                 \* a missing property
IdValues == Sessions \cup {"", Undefined}
Truthy(v) == v \notin {"", Undefined}

\* ------------------------------------------------------- platform resolver
OsPlatforms == {"linux", "freebsd"}

detectPlatform(p) ==
    IF p = "darwin" \/ p = "linux" \/ p = "win32" THEN p ELSE "unsupported"

getDefaultSoundPath(p) ==
    CASE p = "darwin" -> "/System/Library/Sounds/Glass.aiff"
      [] p = "linux"  -> "/usr/share/sounds/freedesktop/stereo/complete.oga"
      [] p = "win32"  -> "C:\\Windows\\Media\\notify.wav"
      [] OTHER        -> ""

\* ------------------------------------------------------------ configuration
\* The default delay of the confirmation timer, in ms.  The model lets a live
\* timer fire at any later step, which covers every delay.
idleConfirmationDelay == 1500

ConfigKeys == {"title", "message", "playSound", "soundPath",
               "idleConfirmationDelay", "skipIfIncompleteTodos"}

\* The partial config records the hook is constructed with.
Configs ==
    { <<>>,
      [title |-> "Build", message |-> "done", playSound |-> TRUE,
       skipIfIncompleteTodos |-> FALSE],
      [playSound |-> TRUE, soundPath |-> "", skipIfIncompleteTodos |-> FALSE] }

DefaultConfig(p) ==
    [title |-> "OpenCode", message |-> "Agent is ready for input",
     playSound |-> FALSE, soundPath |-> getDefaultSoundPath(p),
     idleConfirmationDelay |-> idleConfirmationDelay,
     skipIfIncompleteTodos |-> TRUE]

\* { ...defaults, ...config }
MergeConfig(p, config) ==
    [k \in ConfigKeys |->
        IF k \in DOMAIN config THEN config[k] ELSE DefaultConfig(p)[k]]

\* ---------------------------------------------------------------- todo gate
Statuses == {"completed", "cancelled", "in_progress"}
TodoLists == UNION {[1..n -> Statuses] : n \in 0..MaxTodos}

\* What `await ctx.client.session.todo(...)` produces: a rejection, or a
\* response whose todo array is absent (null) or a list of statuses.
TodoResponses ==
    {[kind |-> "throw", todos |-> <<>>], [kind |-> "null", todos |-> <<>>]}
    \cup {[kind |-> "list", todos |-> l] : l \in TodoLists}

\* A catch block that reports incomplete work when the query fails.
hasIncompleteTodos_failClosed(resp) ==
    IF resp.kind = "throw" THEN TRUE
    ELSE IF resp.kind = "null" \/ Len(resp.todos) = 0 THEN FALSE
    ELSE \E i \in 1..Len(resp.todos) :
            resp.todos[i] # "completed" /\ resp.todos[i] # "cancelled"

\* A gate that asks whether every todo is open (every for some).
hasIncompleteTodos_every(resp) ==
    IF resp.kind = "throw" THEN FALSE
    ELSE IF resp.kind = "null" \/ Len(resp.todos) = 0 THEN FALSE
    ELSE \A i \in 1..Len(resp.todos) :
            resp.todos[i] # "completed" /\ resp.todos[i] # "cancelled"

\* A gate that takes only "completed" for done.
hasIncompleteTodos_completedOnly(resp) ==
    IF resp.kind = "throw" THEN FALSE
    ELSE IF resp.kind = "null" \/ Len(resp.todos) = 0 THEN FALSE
    ELSE \E i \in 1..Len(resp.todos) : resp.todos[i] # "completed"

hasIncompleteTodos(resp) ==
    IF resp.kind = "throw" THEN FALSE
    ELSE IF resp.kind = "null" \/ Len(resp.todos) = 0 THEN FALSE
    ELSE \E i \in 1..Len(resp.todos) :
            resp.todos[i] # "completed" /\ resp.todos[i] # "cancelled"

\* What a response holds, read off the response itself: a rejection, at
\* least one todo that is neither completed nor cancelled, or neither.
Classify(resp) ==
    CASE resp.kind = "throw" -> "throw"
      [] resp.kind = "list"
         /\ \E i \in DOMAIN resp.todos :
               resp.todos[i] \notin {"completed", "cancelled"} -> "open"
      [] OTHER -> "clear"

\* -------------------------------------------------------------------- events
EventTypes == {"session.created", "session.updated", "session.idle",
               "message.updated", "session.deleted", "session.error"}

\* event.properties, reduced to the three places the handler reads: info.id,
\* sessionID and info.sessionID.
Event(type, infoId, sessionID, infoSessionID) ==
    [type |-> type, infoId |-> infoId, sessionID |-> sessionID,
     infoSessionID |-> infoSessionID]

\* The events the host delivers: every type with a session identifier where
\* the handler looks for it and with no properties at all, and some with an
\* empty identifier or with the identifier in another place.
Events ==
    {Event(ty, id, Undefined, Undefined) :
        ty \in {"session.created", "session.updated", "session.deleted"},
        id \in Sessions}
    \cup {Event("session.idle", Undefined, id, Undefined) : id \in Sessions \cup {""}}
    \cup {Event("message.updated", Undefined, Undefined, id) : id \in Sessions}
    \cup {Event("session.error", "s1", Undefined, Undefined),
          Event("session.created", "", Undefined, Undefined),
          Event("session.idle", "s1", Undefined, Undefined),
          Event("message.updated", "s1", Undefined, Undefined),
          Event("session.deleted", Undefined, "s1", Undefined)}
    \cup {Event(ty, Undefined, Undefined, Undefined) : ty \in EventTypes}

\* -------------------------------------------------------------------- state
VARIABLES
    currentPlatform,            \* detectPlatform(), evaluated at construction
    mergedConfig,
    notifiedSessions,           \* Set<string>
    pendingTimers,              \* Map<string, timer>; 0 is "no entry"
    sessionActivitySinceIdle,   \* Set<string>
    timers,                     \* the runtime's live timeouts: [id, sessionID]
    nextTimer,                  \* the handle the next setTimeout returns
    routines,                   \* suspended executeNotification calls
    sent,                       \* sendNotification calls made
    sounds,                     \* timers whose routine called playSound
    uncaught,                   \* an error escaped executeNotification
    fate,                       \* history: each timer's session and whether it is
                                \* pending, fired, cancelled (by activity) or
                                \* deleted (cancelled by session.deleted)
    episode,                    \* history, per session: the kind of the last event
                                \* that took effect (phase), and since the last
                                \* activity or deletion the timers armed and the
                                \* number of notifications sent while idle
    last,                       \* history: the step just taken
    todoCall                    \* a call of hasIncompleteTodos run on its own:
                                \* what the query settles with and, once the
                                \* call has returned, its result

vars == <<currentPlatform, mergedConfig, notifiedSessions, pendingTimers,
          sessionActivitySinceIdle, timers, nextTimer, routines, sent, sounds,
          uncaught, fate, episode, last, todoCall>>

hookState == <<notifiedSessions, pendingTimers, sessionActivitySinceIdle,
               timers, nextTimer, routines, sent, sounds, uncaught>>

NoCall == [response |-> [kind |-> "null", todos |-> <<>>],
           returned |-> FALSE, result |-> FALSE]

NoEpisode == [phase |-> "new", armed |-> {}, sent |-> 0]

\* The step just taken: the handler branch or routine stage (op), its session,
\* its timer and, for a settled todo query, what the response held.
Step(op, sid, t, gate) ==
    [op |-> op, sessionID |-> sid, timer |-> t, gate |-> gate]

Init ==
    /\ \E p \in OsPlatforms, config \in Configs :
          /\ currentPlatform = detectPlatform(p)
          /\ mergedConfig = MergeConfig(detectPlatform(p), config)
    /\ notifiedSessions = {}
    /\ pendingTimers = [s \in Sessions |-> 0]
    /\ sessionActivitySinceIdle = {}
    /\ timers = {}
    /\ nextTimer = 1
    /\ routines = {}
    /\ sent = {}
    /\ sounds = {}
    /\ uncaught = FALSE
    /\ fate = [t \in 1..MaxTimers |-> [sessionID |-> Undefined, state |-> "unarmed"]]
    /\ episode = [s \in Sessions |-> NoEpisode]
    /\ last = Step("init", Undefined, 0, "")
    /\ todoCall = NoCall

\* ------------------------------------------------------------------ helpers
\* A clearTimeout that leaves the timeout in the runtime's queue.
clearTimeout_ineffective(ts, id) == ts

clearTimeout(ts, id) == {t \in ts : t.id # id}

\* cancelPendingNotification(sessionID): the three collections afterwards.
cancelledTimers(sid) ==
    IF pendingTimers[sid] # 0 THEN clearTimeout(timers, pendingTimers[sid])
    ELSE timers
\* A cancelPendingNotification that empties the whole map.
cancelledPending_clearsAll(sid) ==
    IF pendingTimers[sid] # 0 THEN [s \in Sessions |-> 0]
    ELSE pendingTimers

cancelledPending(sid) ==
    IF pendingTimers[sid] # 0 THEN [pendingTimers EXCEPT ![sid] = 0]
    ELSE pendingTimers
\* A cancelPendingNotification that records activity only when it cancelled
\* a timer.
cancelledActivity_onlyIfPending(sid) ==
    IF pendingTimers[sid] # 0 THEN sessionActivitySinceIdle \cup {sid}
    ELSE sessionActivitySinceIdle

cancelledActivity(sid) == sessionActivitySinceIdle \cup {sid}

\* A handler without the platform short-circuit.
HandlerEnabled_always == TRUE

\* The handler's first line.
HandlerEnabled == currentPlatform # "unsupported"

\* A handler that falls back to info.id when a session.idle carries no
\* sessionID.
SessionIdOf_fallback(e) ==
    CASE e.type \in {"session.created", "session.updated"} -> e.infoId
      [] e.type = "session.idle" ->
            IF e.sessionID # Undefined THEN e.sessionID ELSE e.infoId
      [] e.type = "message.updated" -> e.infoSessionID
      [] e.type = "session.deleted" -> e.infoId
      [] OTHER -> Undefined

\* The identifier the handler reads for an event of each type.
SessionIdOf(e) ==
    CASE e.type \in {"session.created", "session.updated"} -> e.infoId
      [] e.type = "session.idle" -> e.sessionID
      [] e.type = "message.updated" -> e.infoSessionID
      [] e.type = "session.deleted" -> e.infoId
      [] OTHER -> Undefined

\* Bookkeeping: the fate of a cancelled timer, and on each routine awaiting
\* the todo query whether an activity event of its session was handled since
\* the session.idle that armed its timer (activitySince).
FateAfterCancel(sid, why) ==
    IF pendingTimers[sid] # 0 THEN [fate EXCEPT ![pendingTimers[sid]].state = why]
    ELSE fate
MarkRoutines(sid) ==
    {IF r.sessionID = sid /\ r.pc = "todo"
        THEN [r EXCEPT !.activitySince = TRUE] ELSE r : r \in routines}

\* ------------------------------------------------------------------ handler
\* The session.idle branch without its pendingTimers.has early return.
IdleGuard_noPendingCheck(sid) == sid \notin notifiedSessions

\* The two early returns of the session.idle branch (lines 171-172).
IdleGuard(sid) == sid \notin notifiedSessions /\ pendingTimers[sid] = 0

\* markSessionActivity(sid), on session.created / session.updated /
\* message.updated
Activity(sid) ==
    /\ timers' = cancelledTimers(sid)
    /\ pendingTimers' = cancelledPending(sid)
    /\ sessionActivitySinceIdle' = cancelledActivity(sid)
    /\ notifiedSessions' = notifiedSessions \ {sid}
    /\ routines' = MarkRoutines(sid)
    /\ fate' = FateAfterCancel(sid, "cancelled")
    /\ episode' = [episode EXCEPT ![sid] = [NoEpisode EXCEPT !.phase = "active"]]
    /\ UNCHANGED <<nextTimer, sent, sounds, uncaught>>

\* A session.idle branch that arms the timer without clearing the activity
\* record.
Idle_keepsActivity(sid) ==
    IF IdleGuard(sid)
    THEN /\ UNCHANGED sessionActivitySinceIdle
         /\ timers' = timers \cup {[id |-> nextTimer, sessionID |-> sid]}
         /\ pendingTimers' = [pendingTimers EXCEPT ![sid] = nextTimer]
         /\ nextTimer' = nextTimer + 1
         /\ fate' = [fate EXCEPT ![nextTimer] = [sessionID |-> sid, state |-> "pending"]]
         /\ episode' = [episode EXCEPT
                ![sid] = [phase |-> "idle",
                          armed |-> IF @.phase = "idle"
                                    THEN @.armed \cup {nextTimer}
                                    ELSE {nextTimer},
                          sent |-> IF @.phase = "idle" THEN @.sent ELSE 0]]
         /\ UNCHANGED <<notifiedSessions, routines, sent, sounds, uncaught>>
    ELSE UNCHANGED <<hookState, fate, episode>>

\* The session.idle branch (lines 167-181).
Idle(sid) ==
    IF IdleGuard(sid)
    THEN /\ sessionActivitySinceIdle' = sessionActivitySinceIdle \ {sid}
         /\ timers' = timers \cup {[id |-> nextTimer, sessionID |-> sid]}
         /\ pendingTimers' = [pendingTimers EXCEPT ![sid] = nextTimer]
         /\ nextTimer' = nextTimer + 1
         /\ fate' = [fate EXCEPT ![nextTimer] = [sessionID |-> sid, state |-> "pending"]]
         /\ episode' = [episode EXCEPT
                ![sid] = [phase |-> "idle",
                          armed |-> IF @.phase = "idle"
                                    THEN @.armed \cup {nextTimer}
                                    ELSE {nextTimer},
                          sent |-> IF @.phase = "idle" THEN @.sent ELSE 0]]
         /\ UNCHANGED <<notifiedSessions, routines, sent, sounds, uncaught>>
    ELSE UNCHANGED <<hookState, fate, episode>>

Deleted(sid) ==
    /\ timers' = cancelledTimers(sid)
    /\ pendingTimers' = cancelledPending(sid)
    /\ notifiedSessions' = notifiedSessions \ {sid}
    /\ sessionActivitySinceIdle' = cancelledActivity(sid) \ {sid}
    /\ fate' = FateAfterCancel(sid, "deleted")
    /\ episode' = [episode EXCEPT ![sid] = [NoEpisode EXCEPT !.phase = "deleted"]]
    /\ UNCHANGED <<nextTimer, routines, sent, sounds, uncaught>>

\* The branch of the handler an event takes.
Branch(e) ==
    IF ~HandlerEnabled \/ ~Truthy(SessionIdOf(e)) THEN "ignored"
    ELSE CASE e.type \in {"session.created", "session.updated", "message.updated"} ->
                 "activity"
           [] e.type = "session.idle" ->
                 IF SessionIdOf(e) \in notifiedSessions THEN "idleNotified"
                 ELSE IF pendingTimers[SessionIdOf(e)] # 0 THEN "idlePending"
                 ELSE "idle"
           [] e.type = "session.deleted" -> "deleted"
           [] OTHER -> "ignored"

\* setTimeout hands out at most MaxTimers handles in one behaviour.
WithinBounds(e) ==
    (e.type = "session.idle" /\ HandlerEnabled /\ Truthy(SessionIdOf(e)))
        => (IdleGuard(SessionIdOf(e)) => nextTimer <= MaxTimers)

HandleEvent(e) ==
    /\ WithinBounds(e)
    /\ last' = Step(Branch(e), IF Branch(e) = "ignored" THEN Undefined
                                ELSE SessionIdOf(e), 0, "")
    /\ UNCHANGED <<currentPlatform, mergedConfig, todoCall>>
    /\ CASE Branch(e) = "activity" -> Activity(SessionIdOf(e))
         [] e.type = "session.idle" /\ Branch(e) # "ignored" -> Idle(SessionIdOf(e))
         [] Branch(e) = "deleted" -> Deleted(SessionIdOf(e))
         [] OTHER -> UNCHANGED <<hookState, fate, episode>>

\* ------------------------------------------------------ executeNotification
\* Lines 142-145: notifiedSessions.add, then the call of sendNotification, which
\* runs to its own first await.  rt is the routine making the call, others the
\* other suspended routines.
Notify(rt, others) ==
    /\ notifiedSessions' = notifiedSessions \cup {rt.sessionID}
    /\ sent' = sent \cup {[timer |-> rt.timer, sessionID |-> rt.sessionID,
                             title |-> mergedConfig.title,
                             message |-> mergedConfig.message]}
    /\ routines' = others \cup {[rt EXCEPT !.pc = "send"]}
    /\ episode' = [episode EXCEPT ![rt.sessionID] =
                      IF @.phase = "idle" THEN [@ EXCEPT !.sent = @ + 1] ELSE @]

\* The timer callback: executeNotification(sessionID) up to its first await.
FireTimer(t) ==
    LET sid == t.sessionID
        rt == [timer |-> t.id, sessionID |-> sid, pc |-> "todo",
               activitySince |-> FALSE]
    IN
    /\ t \in timers
    /\ timers' = timers \ {t}
    /\ pendingTimers' = [pendingTimers EXCEPT ![sid] = 0]
    /\ last' = Step("fire", sid, t.id, "")
    /\ fate' = [fate EXCEPT ![t.id].state = "fired"]
    /\ UNCHANGED <<currentPlatform, mergedConfig, nextTimer, sounds, uncaught,
                   todoCall>>
    /\ IF sid \in sessionActivitySinceIdle
       THEN /\ sessionActivitySinceIdle' = sessionActivitySinceIdle \ {sid}
            /\ UNCHANGED <<notifiedSessions, routines, sent, episode>>
       ELSE /\ UNCHANGED sessionActivitySinceIdle
            /\ IF sid \in notifiedSessions
               THEN UNCHANGED <<notifiedSessions, routines, sent, episode>>
               ELSE IF mergedConfig.skipIfIncompleteTodos
               THEN /\ routines' = routines \cup {rt}
                    /\ UNCHANGED <<notifiedSessions, sent, episode>>
               ELSE Notify(rt, routines)

\* The todo query settles with resp and the routine resumes at line 138.
TodoDone(r, resp) ==
    /\ r \in routines /\ r.pc = "todo"
    /\ last' = Step("todo", r.sessionID, r.timer, Classify(resp))
    /\ UNCHANGED <<currentPlatform, mergedConfig, pendingTimers,
                   sessionActivitySinceIdle, timers, nextTimer, sounds, uncaught,
                   fate, todoCall>>
    /\ IF hasIncompleteTodos(resp)
       THEN /\ routines' = routines \ {r}
            /\ UNCHANGED <<notifiedSessions, sent, episode>>
       ELSE Notify(r, routines \ {r})

\* executeNotification without its try/catch.
CatchesDispatchError_missing == FALSE

\* `catch {}` at line 150: an error thrown inside the try block is discarded.
CatchesDispatchError == TRUE

\* A condition that does not look at soundPath.
WantsSound_anyPath == mergedConfig.playSound

WantsSound == mergedConfig.playSound /\ mergedConfig.soundPath # ""

\* sendNotification settles; on success the routine goes on to playSound.
SendDone(r, ok) ==
    /\ r \in routines /\ r.pc = "send"
    /\ last' = Step(IF ok THEN "sendOk" ELSE "sendFail", r.sessionID, r.timer, "")
    /\ UNCHANGED <<currentPlatform, mergedConfig, notifiedSessions, pendingTimers,
                   sessionActivitySinceIdle, timers, nextTimer, sent, fate, episode,
                   todoCall>>
    /\ IF ok /\ WantsSound
       THEN /\ routines' = (routines \ {r}) \cup {[r EXCEPT !.pc = "sound"]}
            /\ sounds' = sounds \cup {r.timer}
            /\ UNCHANGED uncaught
       ELSE /\ routines' = routines \ {r}
            /\ uncaught' = (uncaught \/ (~ok /\ ~CatchesDispatchError))
            /\ UNCHANGED sounds

\* playSound settles and executeNotification returns.
SoundDone(r, ok) ==
    /\ r \in routines /\ r.pc = "sound"
    /\ last' = Step(IF ok THEN "soundOk" ELSE "soundFail", r.sessionID, r.timer, "")
    /\ routines' = routines \ {r}
    /\ uncaught' = (uncaught \/ (~ok /\ ~CatchesDispatchError))
    /\ UNCHANGED <<currentPlatform, mergedConfig, notifiedSessions, pendingTimers,
                   sessionActivitySinceIdle, timers, nextTimer, sent, sounds,
                   fate, episode, todoCall>>

Next ==
    \/ \E e \in Events : HandleEvent(e)
    \/ \E t \in timers : FireTimer(t)
    \/ \E r \in routines, resp \in TodoResponses : TodoDone(r, resp)
    \/ \E r \in routines, ok \in BOOLEAN : SendDone(r, ok)
    \/ \E r \in routines, ok \in BOOLEAN : SoundDone(r, ok)

Spec == Init /\ [][Next]_vars

\* ------------------------------------------------ hasIncompleteTodos alone
\* What the todo query can settle with when the function is run on its own: a
\* rejection, no list, or a list of up to MaxQueryTodos todos.
QueryResponses ==
    {[kind |-> "throw", todos |-> <<>>], [kind |-> "null", todos |-> <<>>]}
    \cup {[kind |-> "list", todos |-> l] :
            l \in UNION {[1..n -> Statuses] : n \in 0..MaxQueryTodos}}

\* One call of hasIncompleteTodos(ctx, sessionID) outside the hook: nothing of
\* the hook has run.
TodoInit ==
    /\ todoCall \in {[response |-> resp, returned |-> FALSE, result |-> FALSE] :
                        resp \in QueryResponses}
    /\ currentPlatform = detectPlatform("linux")
    /\ mergedConfig = MergeConfig(detectPlatform("linux"), <<>>)
    /\ notifiedSessions = {}
    /\ pendingTimers = [s \in Sessions |-> 0]
    /\ sessionActivitySinceIdle = {}
    /\ timers = {}
    /\ nextTimer = 1
    /\ routines = {}
    /\ sent = {}
    /\ sounds = {}
    /\ uncaught = FALSE
    /\ fate = [t \in 1..MaxTimers |-> [sessionID |-> Undefined, state |-> "unarmed"]]
    /\ episode = [s \in Sessions |-> NoEpisode]
    /\ last = Step("init", Undefined, 0, "")

\* The query settles and the function returns.
TodoReturn ==
    /\ ~todoCall.returned
    /\ todoCall' = [todoCall EXCEPT !.returned = TRUE,
                                     !.result = hasIncompleteTodos(todoCall.response)]
    /\ last' = Step("return", Undefined, 0, Classify(todoCall.response))
    /\ UNCHANGED <<currentPlatform, mergedConfig, hookState, fate, episode>>

TodoNext == TodoReturn

TodoSpec == TodoInit /\ [][TodoNext]_vars

\* ------------------------------------------------------------------- claims
TimerIds == 1..MaxTimers
RoutinesOf(sid) == {r \in routines : r.sessionID = sid}
Returned(t) == fate[t].state = "fired" /\ \A r \in routines : r.timer # t

\* C1: for every session, at most one notification is dispatched in one idle
\* episode, the episode running from the session.idle that armed a timer while
\* none was pending and the session was not notified, to the next activity or
\* deletion event of the session.
C1_AtMostOnePerEpisode == \A s \in Sessions : episode[s].sent <= 1

C3_ExactlyOneNotification ==
    \A s \in Sessions : \A x \in sent :
        (x.sessionID = s /\ x.timer \in episode[s].armed /\ Returned(x.timer))
            => /\ episode[s].sent = 1
               /\ x.title = mergedConfig.title
               /\ x.message = mergedConfig.message

\* C4: whenever sendNotification is called for a session, no activity event of
\* that session has been handled since the session.idle that armed the timer
\* whose firing led to the call.  (Activity before the firing cancels the
\* timer; a routine awaiting sendNotification carries in activitySince whether
\* activity was handled between the firing and the call.)
C4_NotifyOnlyIfStayedIdle ==
    \A r \in routines : r.pc = "send" => ~r.activitySince

\* C5: a session never has two live confirmation timers; pendingTimers names
\* exactly the live timer of a session, from the session.idle that armed it to
\* its firing or cancellation; and a session.idle handled while a timer is
\* pending arms nothing and leaves the hook's state as it was.
C5_LiveTimers ==
    /\ \A s \in Sessions : Cardinality({x \in timers : x.sessionID = s}) <= 1
    /\ \A x \in timers : pendingTimers[x.sessionID] = x.id
    /\ \A s \in Sessions :
          pendingTimers[s] # 0 =>
              /\ [id |-> pendingTimers[s], sessionID |-> s] \in timers
              /\ fate[pendingTimers[s]] = [sessionID |-> s, state |-> "pending"]
    /\ \A t \in TimerIds :
          fate[t].state = "pending" => pendingTimers[fate[t].sessionID] = t

C5_RepeatedIdle ==
    (last'.op = "idlePending") => UNCHANGED <<hookState, fate, episode>>

C5_AtMostOneLiveTimer == []C5_LiveTimers /\ [][C5_RepeatedIdle]_vars

\* A session.idle has just been ignored because the session's timer, armed by
\* an earlier session.idle, is still pending.
C5_Witness ==
    /\ last.op = "idlePending"
    /\ pendingTimers[last.sessionID] # 0
    /\ Cardinality({x \in timers : x.sessionID = last.sessionID}) = 1

\* C6: once session.deleted has been handled for a session and every routine
\* of that session that was in flight has returned, the session has no pending
\* timer and is neither notified nor marked active, as long as no later event
\* of the session has armed a timer or marked activity.
C6_DeletedResets ==
    \A s \in Sessions :
        (episode[s].phase = "deleted" /\ RoutinesOf(s) = {})
            => /\ pendingTimers[s] = 0
               /\ s \notin notifiedSessions
               /\ s \notin sessionActivitySinceIdle

\* C7: the step in which the todo gate reports incomplete work ends the
\* routine and changes nothing else: no notification, notifiedSessions as it
\* was, no timer armed; so a session that was not notified and had no timer
\* then is still accepted by the session.idle guard.
C7_BlockedStep ==
    (last'.op = "todo" /\ last'.gate = "open") =>
        /\ mergedConfig.skipIfIncompleteTodos
        /\ UNCHANGED <<notifiedSessions, pendingTimers, sessionActivitySinceIdle,
                       timers, nextTimer, sent, sounds, uncaught>>
        /\ routines' = {r \in routines : r.timer # last'.timer}
        /\ \A s \in Sessions : IdleGuard(s) => IdleGuard(s)'

C7_GateBlocks == [][C7_BlockedStep]_vars

\* The gate has just reported incomplete work for a session whose next
\* session.idle will arm a timer.
C7_Witness ==
    /\ last.op = "todo" /\ last.gate = "open"
    /\ IdleGuard(last.sessionID)
    /\ nextTimer <= MaxTimers
    /\ sent = {}

\* C8: a failed dispatch ends the routine without an escaping error, without
\* another attempt and without touching notifiedSessions: a session that saw
\* no activity or deletion since its timer was armed is still notified after
\* the failure, so its session.idle events are ignored.
C8_FailedStep ==
    (last'.op \in {"sendFail", "soundFail"}) =>
        /\ UNCHANGED <<notifiedSessions, pendingTimers, sessionActivitySinceIdle,
                       timers, nextTimer, sent, sounds>>
        /\ routines' = {r \in routines : r.timer # last'.timer}

C8_AfterFailure ==
    /\ ~uncaught
    /\ (last.op \in {"sendFail", "soundFail"}
            /\ last.timer \in episode[last.sessionID].armed)
          => /\ last.sessionID \in notifiedSessions
             /\ ~IdleGuard(last.sessionID)

C8_DispatchFailureCaught == []C8_AfterFailure /\ [][C8_FailedStep]_vars

\* sendNotification has just failed for a session that stayed idle.
C8_Witness ==
    /\ last.op = "sendFail"
    /\ last.timer \in episode[last.sessionID].armed
    /\ last.sessionID \in notifiedSessions
    /\ \A r \in routines : r.timer # last.timer

\* C9: when the todo query fails, the routine goes on exactly as for a
\* session without incomplete work: it marks the session notified and calls
\* sendNotification with the configured title and message.
C9_FailedQueryStep ==
    (last'.op = "todo" /\ last'.gate = "throw") =>
        /\ last'.sessionID \in notifiedSessions'
        /\ \E x \in sent' \ sent :
              /\ x.timer = last'.timer /\ x.sessionID = last'.sessionID
              /\ x.title = mergedConfig.title /\ x.message = mergedConfig.message
        /\ \E r \in routines' : r.timer = last'.timer /\ r.pc = "send"

C9_GateFailsOpen == [][C9_FailedQueryStep]_vars

\* The todo query has just failed and the notification went out.
C9_Witness ==
    /\ last.op = "todo" /\ last.gate = "throw"
    /\ mergedConfig.skipIfIncompleteTodos
    /\ last.sessionID \in notifiedSessions
    /\ \E x \in sent : x.timer = last.timer

\* C10: on an unsupported platform the hook never leaves its initial state:
\* no session state, no timer, no todo query, no notification, no sound.
C10_UnsupportedIsNoOp ==
    currentPlatform = "unsupported" =>
        /\ notifiedSessions = {} /\ sessionActivitySinceIdle = {}
        /\ pendingTimers = [s \in Sessions |-> 0]
        /\ timers = {} /\ nextTimer = 1
        /\ routines = {} /\ sent = {} /\ sounds = {}
        /\ last.op \in {"init", "ignored"}

\* An event has been handled on an unsupported platform.
C10_Witness == currentPlatform = "unsupported" /\ last.op = "ignored"

\* C11: an event of a kind the hook does not know, or without a session
\* identifier in the place its kind prescribes (info.id for session.created,
\* session.updated and session.deleted, sessionID for session.idle,
\* info.sessionID for message.updated), changes nothing: no session's notified,
\* pending-timer or activity record, no timer armed or cancelled, no error.
C11_ExpectedId(e) ==
    CASE e.type \in {"session.created", "session.updated", "session.deleted"} ->
            e.infoId
      [] e.type = "session.idle" -> e.sessionID
      [] e.type = "message.updated" -> e.infoSessionID
      [] OTHER -> ""

C11_Malformed(e) == C11_ExpectedId(e) \in {"", Undefined}

\* Every such event takes the ignoring branch of the handler, and a step of
\* that branch changes nothing.
C11_TakesIgnoredBranch ==
    \A e \in Events : C11_Malformed(e) => Branch(e) = "ignored"

C11_IgnoredStep ==
    (last'.op = "ignored") => UNCHANGED <<hookState, fate, episode>>

C11_MalformedIgnored == []C11_TakesIgnoredBranch /\ [][C11_IgnoredStep]_vars

\* A malformed event has just been ignored on a supported platform while a
\* timer was pending and a session was notified.
C11_Witness ==
    /\ last.op = "ignored"
    /\ currentPlatform # "unsupported"
    /\ timers # {}
    /\ notifiedSessions # {}

\* C12: in every reachable state a session is notified exactly when a
\* notification has been committed in its current idle episode and no activity
\* event of the session has been handled since; so a session is not notified
\* from an activity event until a dispatch is decided in a later idle episode.
C12_NotifiedIffCommitted ==
    \A s \in Sessions :
        (s \in notifiedSessions) <=>
            (episode[s].phase = "idle" /\ episode[s].sent >= 1)

\* C13: hasIncompleteTodos returns true exactly when the todo list the query
\* returned holds at least one todo whose status is neither "completed" nor
\* "cancelled"; for an empty list, for no list and for a failed query it
\* returns false.
C13_OpenTodos(resp) ==
    IF resp.kind = "list"
    THEN {i \in DOMAIN resp.todos : resp.todos[i] \notin {"completed", "cancelled"}}
    ELSE {}

C13_TrueIffOpenTodo ==
    todoCall.returned =>
        (todoCall.result <=> (C13_OpenTodos(todoCall.response) # {}))

\* The function has returned true for a list whose first todo is cancelled.
C13_Witness ==
    /\ todoCall.returned /\ todoCall.result
    /\ todoCall.response.kind = "list"
    /\ Len(todoCall.response.todos) >= 2
    /\ todoCall.response.todos[1] = "cancelled"

\* C14: for every session at most one confirmation routine is in flight at any
\* time, a routine being in flight from the firing of its timer until
\* executeNotification returns, the awaits of the todo query, of
\* sendNotification and of playSound included.
C14_OneRoutinePerSession ==
    \A s \in Sessions : Cardinality(RoutinesOf(s)) <= 1

\* C15: whenever the confirmation timer of a session fires, the session is not
\* notified, so the return at line 135 is never taken.
C15_FireStep ==
    \A t \in timers : FireTimer(t) => t.sessionID \notin notifiedSessions

C15_NotNotifiedAtFire == [][C15_FireStep]_vars

\* C16 as stated: a session is recorded in sessionActivitySinceIdle only if
\* activity was observed after a timer of the session was armed, so only if a
\* timer has been armed for the session at all.
C16_FlagOnlyAfterArmed ==
    \A s \in sessionActivitySinceIdle :
        \E t \in TimerIds : fate[t].sessionID = s

\* C16, amended: a session is recorded in sessionActivitySinceIdle exactly from
\* an activity event of the session, whether or not a timer was pending, until
\* the next session.idle that arms a timer or the next session.deleted; while
\* it is recorded no timer of the session is pending.
C16_FlagIffActive ==
    \A s \in Sessions :
        /\ (s \in sessionActivitySinceIdle) <=> (episode[s].phase = "active")
        /\ (s \in sessionActivitySinceIdle) => pendingTimers[s] = 0

\* Activity is recorded for a session for which no timer was ever armed.
C16_Witness ==
    \E s \in sessionActivitySinceIdle :
        /\ \A t \in TimerIds : fate[t].sessionID # s
        /\ last.op = "activity" /\ last.sessionID = s

\* C17: a session is notified by the time sendNotification is called for it;
\* an activity event handled afterwards clears the mark; the dispatch in flight
\* does not set it again when it settles; and the first session.idle after
\* such an activity event, the dispatch committed before it still in flight,
\* arms a new timer.
C17_DispatchBefore(s) ==
    \E r \in RoutinesOf(s) : r.pc \in {"send", "sound"} /\ ~r.activitySince

C17_SetBeforeSend ==
    \A x \in sent' \ sent : x.sessionID \in notifiedSessions'

C17_ActivityClears ==
    (last'.op = "activity") => last'.sessionID \notin notifiedSessions'

C17_SettlingLeavesMark ==
    (last'.op \in {"sendOk", "sendFail", "soundOk", "soundFail"})
        => UNCHANGED notifiedSessions

C17_NextIdleArms ==
    \A s \in Sessions :
        (/\ last'.op \in {"idle", "idleNotified", "idlePending"}
         /\ last'.sessionID = s
         /\ episode[s].phase = "active"
         /\ C17_DispatchBefore(s))
        => (last'.op = "idle" /\ pendingTimers'[s] # 0)

C17_Step ==
    /\ C17_SetBeforeSend
    /\ C17_ActivityClears
    /\ C17_SettlingLeavesMark
    /\ C17_NextIdleArms

C17_ActivityStartsNewEpisode == [][C17_Step]_vars

\* C18: playSound is called only in the step in which sendNotification of the
\* same routine settles without error, and only when playSound is set and
\* soundPath is not empty; when sendNotification fails, or the routine returned
\* before calling it, no sound is played for that routine.
C18_SoundStep ==
    /\ (sounds' # sounds) =>
            /\ last'.op = "sendOk"
            /\ sounds' = sounds \cup {last'.timer}
            /\ mergedConfig.playSound
            /\ mergedConfig.soundPath # ""
    /\ (last'.op = "sendFail") => last'.timer \notin sounds'

C18_SoundHasDispatch ==
    \A t \in sounds : \E x \in sent : x.timer = t

C18_SoundOnlyAfterNotify == []C18_SoundHasDispatch /\ [][C18_SoundStep]_vars

\* sendNotification has just settled without error and playSound was called.
C18_Witness == last.op = "sendOk" /\ last.timer \in sounds

\* C19: a step taken for one session (an event of the session, the firing or
\* cancelling of its timer, a stage of its routine) leaves every other
\* session's notified mark, pending timer, live timers and activity record
\* unchanged, and whether the step commits a notification is decided by the
\* session's own records and the answer to its own query.
C19_Local(s) ==
    <<s \in notifiedSessions, pendingTimers[s], s \in sessionActivitySinceIdle,
      {t \in timers : t.sessionID = s}>>

C19_Commits(s) == \E x \in sent' \ sent : x.sessionID = s

C19_StepOf(s) ==
    /\ \A o \in Sessions \ {s} : UNCHANGED C19_Local(o)
    /\ (last'.op = "fire") =>
            ((C19_Commits(s) \/ RoutinesOf(s) # {r \in routines' : r.sessionID = s})
                <=> (s \notin sessionActivitySinceIdle /\ s \notin notifiedSessions))
    /\ (last'.op = "todo") => (C19_Commits(s) <=> last'.gate # "open")

C19_Step ==
    /\ \A s \in Sessions : (last'.sessionID = s) => C19_StepOf(s)
    /\ (last'.sessionID = Undefined) => \A o \in Sessions : UNCHANGED C19_Local(o)

C19_SessionsIndependent == [][C19_Step]_vars

\* An activity event of one session has just been handled while the timer of
\* another was pending.
C19_Witness ==
    \E s \in Sessions, o \in Sessions :
        /\ s # o
        /\ last.op = "activity" /\ last.sessionID = s
        /\ pendingTimers[o] # 0
        /\ \E t \in TimerIds : fate[t].sessionID = s /\ fate[t].state = "cancelled"

\* C20: whenever a timer of a session can fire, the session is not recorded in
\* sessionActivitySinceIdle (arming removes it, and whatever adds it also
\* cancels the timer), so no firing takes the return at lines 130-133.
C20_NoActivityAtFire ==
    \A t \in timers : t.sessionID \notin sessionActivitySinceIdle

\* A timer has just fired for a session whose earlier timer was cancelled by
\* an activity event.
C20_Witness ==
    /\ last.op = "fire"
    /\ \E t \in TimerIds :
          /\ fate[t].sessionID = last.sessionID
          /\ fate[t].state = "cancelled"
          /\ t < last.timer
====
